---- MODULE Spec2Model ----
(***************************************************************************)
(* Cloud Security Threat Predictor: the risk scoring engine                *)
(* (backend/app/risk_engine.py), the alert explainer                       *)
(* (backend/app/explainer.py) and the anomaly model wrapper                *)
(* (backend/app/ml_model.py).                                              *)
(*                                                                         *)
(* Numbers.  Python floats are modelled by exact rationals [n, d] in       *)
(* lowest terms (d > 0).  Every property stated below is one that float    *)
(* rounding preserves (order, exact 0 and 1, the clamp), so exact          *)
(* arithmetic is a faithful stand-in.                                      *)
(***************************************************************************)
EXTENDS Integers, Sequences, FiniteSets, TLC

VARIABLES
    \* ---- RiskScoringEngine call under observation (SpecRisk)
    rPc,          \* "idle" | "call" | "done"
    rArgs,        \* arguments of the call to calculate_and_classify
    rOut,         \* its return value (risk_score, risk_level)
    rPrev,        \* the previous call, kept to compare two calls
    \* ---- classify_risk_level call under observation (SpecClassify)
    cPc,          \* "idle" | "call" | "done"
    cIn,          \* the risk_score argument
    cOut,         \* the returned level
    \* ---- AlertExplainer.generate_explanation call under observation (SpecExplain)
    ePc,          \* "idle" | "call" | "done"
    eLog,         \* the log_data dict (a function on the keys that are present)
    eTop,         \* the top_features argument (None, or a list of pairs)
    eOut,         \* the outcome: the returned list, or the exception raised
    \* ---- the CloudSecurityMLModel instance ml_model and its artifact (Spec)
    model,            \* self.model: None, an unfitted or a fitted IsolationForest
    scaler,           \* self.scaler: StandardScaler and its fitted statistics
    location_encoder, \* self.location_encoder: LabelEncoder and its classes_
    resource_encoder, \* self.resource_encoder: LabelEncoder, never fitted
    feature_names,    \* self.feature_names
    artifact,         \* the file at self.model_path: absent, or the saved bundle
    call,             \* the last call made on the instance and its outcome
    repeat,           \* whether that call re-scored the batch of the predict call
                      \* just before it, and that earlier outcome
    installed,        \* whether a train or load_model call has returned normally
                      \* on this instance
    \* ---- the request handlers of main.py on the event loop (SpecServe)
    tPc,          \* how far the train_model handler has got inside train:
                  \* "idle" | "encoded" | "scaled" | "constructed" | "fitted"
    tLogs,        \* the logs that handler is training on
    runNo,        \* the number of calls of train so far
    runs,         \* the call of train (its number) that last assigned each of
                  \* location_encoder, scaler, model, and that wrote the artifact
    observed,     \* what the last scoring call found in runs when it ran
    waiting,      \* a scoring request received and not yet served, and
                  \* whether it arrived while train_model was running
    \* ---- the cloud_logs table and the HTTP responses (SpecApi)
    db,           \* the committed rows of cloud_logs, in id order
    resp          \* the response to the last request

riskVars == <<rPc, rArgs, rOut, rPrev>>
classVars == <<cPc, cIn, cOut>>
explVars == <<ePc, eLog, eTop, eOut>>
fieldVars == <<model, scaler, location_encoder, resource_encoder, feature_names>>
mlVars == <<fieldVars, artifact, call, repeat, installed>>
serveVars == <<tPc, tLogs, runNo, runs, observed, waiting>>
apiVars == <<db, resp>>
vars == <<riskVars, classVars, explVars, mlVars, serveVars, apiVars>>

-----------------------------------------------------------------------------
(* Bounds of the model *)

\* anomaly scores offered to the risk engine are k/AnomalyDen, k in 0..AnomalyDen
AnomalyDen == 5
\* failed_login_attempts offered to the risk engine: 0..MaxFailed
MaxFailed == 12
\* vm_creation_count offered to the risk engine: 0..MaxVm
MaxVm == 15
\* risk scores offered to classify_risk_level: n/d, d in 1..ScoreDen, up to MaxScore
ScoreDen == 3
MaxScore == 101
\* failed_login_attempts and vm_creation_count offered to the explainer
ExplMaxFailed == 5
ExplMaxVm == 10
\* batches passed to predict hold at most MaxBatch logs
MaxBatch == 3
\* the train_model handler calls train at most MaxRuns times in SpecServe
MaxRuns == 2
\* simulate_attack adds logs while cloud_logs holds at most MaxRows rows
MaxRows == 5

-----------------------------------------------------------------------------
(* Exact rationals *)

RECURSIVE GCD(_, _)
GCD(a, b) == IF b = 0 THEN a ELSE GCD(b, a % b)

Abs(x) == IF x < 0 THEN -x ELSE x

\* n/d in lowest terms, d > 0
Rat(n, d) ==
    LET g == GCD(Abs(n), Abs(d))
        s == IF d < 0 THEN -1 ELSE 1
    IN  [n |-> s * (n \div g), d |-> s * (d \div g)]

RInt(k) == [n |-> k, d |-> 1]
RAdd(a, b) == Rat(a.n * b.d + b.n * a.d, a.d * b.d)
RSub(a, b) == Rat(a.n * b.d - b.n * a.d, a.d * b.d)
RMulInt(a, k) == Rat(a.n * k, a.d)
RLeq(a, b) == a.n * b.d <= b.n * a.d
RLt(a, b) == a.n * b.d < b.n * a.d
\* Python's min(a, b): b only when b < a
RMin(a, b) == IF RLt(b, a) THEN b ELSE a

-----------------------------------------------------------------------------
(* risk_engine.py *)

ANOMALY_WEIGHT == 50
FAILED_LOGIN_WEIGHT == 5
PRIVILEGE_CHANGE_WEIGHT == 20
VM_CREATION_WEIGHT == 5
LOW_THRESHOLD == 30
MEDIUM_THRESHOLD == 70

\* the weighted sum of lines 50-55, before the cap
risk_sum(anomaly_score, failed_login_attempts, privilege_change, vm_creation_count) ==
    RAdd(RMulInt(anomaly_score, ANOMALY_WEIGHT),
         RInt(failed_login_attempts * FAILED_LOGIN_WEIGHT
              + (IF privilege_change THEN 1 ELSE 0) * PRIVILEGE_CHANGE_WEIGHT
              + vm_creation_count * VM_CREATION_WEIGHT))

\* mutant: the cap of line 58 dropped
calculate_risk_score_nocap(anomaly_score, failed_login_attempts, privilege_change, vm_creation_count) ==
    risk_sum(anomaly_score, failed_login_attempts, privilege_change, vm_creation_count)

\* mutant: the failed-login weight applied to the anomaly score as well
calculate_risk_score_weight(anomaly_score, failed_login_attempts, privilege_change, vm_creation_count) ==
    RMin(RAdd(RMulInt(anomaly_score, FAILED_LOGIN_WEIGHT),
              RInt(failed_login_attempts * FAILED_LOGIN_WEIGHT
                   + (IF privilege_change THEN 1 ELSE 0) * PRIVILEGE_CHANGE_WEIGHT
                   + vm_creation_count * VM_CREATION_WEIGHT)),
         RInt(100))

\* mutant: the rule terms wrap instead of being capped (score taken modulo 100)
calculate_risk_score_wrap(anomaly_score, failed_login_attempts, privilege_change, vm_creation_count) ==
    LET s == risk_sum(anomaly_score, failed_login_attempts, privilege_change, vm_creation_count)
    IN  IF RLeq(s, RInt(100)) THEN s ELSE RSub(s, RInt(100 * ((s.n \div s.d) \div 100)))

calculate_risk_score(anomaly_score, failed_login_attempts, privilege_change, vm_creation_count) ==
    RMin(risk_sum(anomaly_score, failed_login_attempts, privilege_change, vm_creation_count),
         RInt(100))

\* mutant: strict comparisons, so that 30 is Medium and 70 is High
classify_risk_level_strict(risk_score) ==
    IF RLt(risk_score, RInt(LOW_THRESHOLD)) THEN "Low"
    ELSE IF RLt(risk_score, RInt(MEDIUM_THRESHOLD)) THEN "Medium"
    ELSE "High"

classify_risk_level(risk_score) ==
    IF RLeq(risk_score, RInt(LOW_THRESHOLD)) THEN "Low"
    ELSE IF RLeq(risk_score, RInt(MEDIUM_THRESHOLD)) THEN "Medium"
    ELSE "High"

\* dict.get(key, default)
Get(d, k, default) == IF k \in DOMAIN d THEN d[k] ELSE default

calculate_and_classify(log_data, anomaly_score) ==
    LET risk_score == calculate_risk_score(anomaly_score,
                          Get(log_data, "failed_login_attempts", 0),
                          Get(log_data, "privilege_change", FALSE),
                          Get(log_data, "vm_creation_count", 0))
    IN  [risk_score |-> risk_score, risk_level |-> classify_risk_level(risk_score)]

-----------------------------------------------------------------------------
(* explainer.py.  A Python str is a sequence of one-character strings where  *)
(* the code takes it apart (login_time); other strings are used whole.       *)

Digits == <<"0", "1", "2", "3", "4", "5", "6", "7", "8", "9">>
IsDigit(c) == \E i \in 1..10 : Digits[i] = c
DigitVal(c) == (CHOOSE i \in 1..10 : Digits[i] = c) - 1

\* s.split(sep)[0]: the part of s before the first sep, or all of s
SplitFirst(s, sep) ==
    IF \E i \in 1..Len(s) : s[i] = sep
    THEN SubSeq(s, 1, (CHOOSE i \in 1..Len(s) :
                          s[i] = sep /\ \A j \in 1..(i - 1) : s[j] # sep) - 1)
    ELSE s

RECURSIVE DecimalValue(_)
DecimalValue(s) ==
    IF Len(s) = 0 THEN 0
    ELSE 10 * DecimalValue(SubSeq(s, 1, Len(s) - 1)) + DigitVal(s[Len(s)])

\* int(s) on the characters of the model: an optional sign, then one or more
\* digits; anything else raises ValueError
PyInt(s) ==
    LET signed == Len(s) > 0 /\ s[1] \in {"-", "+"}
        body == IF signed THEN SubSeq(s, 2, Len(s)) ELSE s
    IN  IF Len(body) > 0 /\ \A i \in 1..Len(body) : IsDigit(body[i])
        THEN [ok |-> TRUE,
              val |-> IF signed /\ s[1] = "-" THEN -DecimalValue(body)
                      ELSE DecimalValue(body)]
        ELSE [ok |-> FALSE, val |-> 0]

unusual_locations ==
    {"Unknown", "Tor-Exit-Node", "Darknet", "Suspicious-IP", "Blacklisted-Region"}

feature_cols ==
    <<"failed_login_attempts", "vm_creation_count", "login_frequency",
      "unusual_location_flag", "privilege_escalation_flag", "access_spike_score",
      "login_hour", "resource_access_encoded", "location_encoded">>

\* feature_name.replace('_', ' ').title() on the feature names
Humanize(feature_name) ==
    CASE feature_name = "failed_login_attempts" -> "Failed Login Attempts"
      [] feature_name = "vm_creation_count" -> "Vm Creation Count"
      [] feature_name = "login_frequency" -> "Login Frequency"
      [] feature_name = "unusual_location_flag" -> "Unusual Location Flag"
      [] feature_name = "privilege_escalation_flag" -> "Privilege Escalation Flag"
      [] feature_name = "access_spike_score" -> "Access Spike Score"
      [] feature_name = "login_hour" -> "Login Hour"
      [] feature_name = "resource_access_encoded" -> "Resource Access Encoded"
      [] feature_name = "location_encoded" -> "Location Encoded"
      [] OTHER -> feature_name

\* one explanation string: the check that produced it and the value formatted into it
Msg(check, arg) == [check |-> check, arg |-> <<arg>>]

\* an importance is a Python float: a number, or NaN (get_feature_importance
\* gives the absolute value of a scaled cell, which may be NaN)
Importance(n, d) == [nan |-> FALSE, v |-> Rat(n, d)]
NaNImportance == [nan |-> TRUE, v |-> RInt(0)]

\* line 86: importance > 0.5, which is False on NaN
Significant(importance) == ~importance.nan /\ RLt(Rat(1, 2), importance.v)

\* lines 84-88: the readable names of those of the first three features whose
\* importance is > 0.5
RECURSIVE MlFactors(_)
MlFactors(items) ==
    IF Len(items) = 0 THEN <<>>
    ELSE LET rest == MlFactors(SubSeq(items, 1, Len(items) - 1))
             it == items[Len(items)]
         IN  IF Significant(it[2]) THEN Append(rest, Humanize(it[1])) ELSE rest

\* lines 32-37: unusual location
LocationCheck(log_data) ==
    IF "login_location" \in DOMAIN log_data
       /\ log_data["login_location"] \in unusual_locations
    THEN <<Msg("unusual_location", log_data["login_location"])>> ELSE <<>>

\* mutant: elif of line 45 written as if, so 5 or more appends both messages
FailedLoginCheck_both(log_data) ==
    LET failed_attempts == Get(log_data, "failed_login_attempts", 0)
    IN  (IF failed_attempts >= 5
         THEN <<Msg("multiple_failed_logins", failed_attempts)>> ELSE <<>>)
        \o (IF failed_attempts >= 3
            THEN <<Msg("elevated_failed_logins", failed_attempts)>> ELSE <<>>)

\* lines 39-48: failed login attempts, two tiers
FailedLoginCheck(log_data) ==
    LET failed_attempts == Get(log_data, "failed_login_attempts", 0)
    IN  IF failed_attempts >= 5 THEN <<Msg("multiple_failed_logins", failed_attempts)>>
        ELSE IF failed_attempts >= 3 THEN <<Msg("elevated_failed_logins", failed_attempts)>>
        ELSE <<>>

\* lines 50-54: privilege escalation
PrivilegeCheck(log_data) ==
    IF Get(log_data, "privilege_change", FALSE)
    THEN <<Msg("privilege_escalation", "")>> ELSE <<>>

\* lines 56-65: VM creation, two tiers
VmCheck(log_data) ==
    LET vm_count == Get(log_data, "vm_creation_count", 0)
    IN  IF vm_count >= 10 THEN <<Msg("suspicious_vm_creation", vm_count)>>
        ELSE IF vm_count >= 5 THEN <<Msg("elevated_vm_creation", vm_count)>>
        ELSE <<>>

\* lines 67-71: high resource access
ResourceCheck(log_data) ==
    IF "resource_access_level" \in DOMAIN log_data
       /\ log_data["resource_access_level"] = "high"
    THEN <<Msg("high_resource_access", "")>> ELSE <<>>

\* mutant: the bounds of line 77 taken inclusive (hour <= 6 or hour >= 22)
HoursCheck_inclusive(log_data) ==
    LET login_time == Get(log_data, "login_time", <<>>)
        hour == PyInt(SplitFirst(login_time, ":")).val
    IN  IF Len(login_time) > 0 /\ (hour <= 6 \/ hour >= 22)
        THEN <<Msg("unusual_hours", login_time)>> ELSE <<>>

\* lines 73-80: unusual hours
HoursCheck(log_data) ==
    LET login_time == Get(log_data, "login_time", <<>>)
        hour == PyInt(SplitFirst(login_time, ":")).val
    IN  IF Len(login_time) > 0 /\ (hour < 6 \/ hour > 22)
        THEN <<Msg("unusual_hours", login_time)>> ELSE <<>>

\* mutant: every entry of top_features considered, not only top_features[:3]
MlCheck_nolimit(top_features) ==
    LET ml_factors == IF top_features.none THEN <<>>
                      ELSE MlFactors(top_features.items)
    IN  IF Len(ml_factors) > 0 THEN <<Msg("ml_key_factors", ml_factors)>> ELSE <<>>

\* lines 82-93: the ML key factors
MlCheck(top_features) ==
    LET ml_factors == IF top_features.none THEN <<>>
                      ELSE MlFactors(SubSeq(top_features.items, 1,
                                            IF Len(top_features.items) < 3
                                            THEN Len(top_features.items) ELSE 3))
    IN  IF Len(ml_factors) > 0 THEN <<Msg("ml_key_factors", ml_factors)>> ELSE <<>>

\* mutant: the unusual-hours check run first
SpecificExplanations_hoursfirst(log_data, top_features) ==
    HoursCheck(log_data) \o LocationCheck(log_data) \o FailedLoginCheck(log_data)
    \o PrivilegeCheck(log_data) \o VmCheck(log_data) \o ResourceCheck(log_data)
    \o MlCheck(top_features)

\* lines 32-93: the entries of checks 1 to 7, in order
SpecificExplanations(log_data, top_features) ==
    LocationCheck(log_data) \o FailedLoginCheck(log_data) \o PrivilegeCheck(log_data)
    \o VmCheck(log_data) \o ResourceCheck(log_data) \o HoursCheck(log_data)
    \o MlCheck(top_features)

\* mutant: the bound of line 98 taken inclusive (anomaly_score >= 0.6)
Fallback_inclusive(log_data) ==
    IF "anomaly_score" \in DOMAIN log_data
       /\ log_data["anomaly_score"].n # 0
       /\ RLeq(Rat(3, 5), log_data["anomaly_score"])
    THEN <<Msg("behavioral_deviation", "")>>
    ELSE <<Msg("combined_minor_indicators", "")>>

\* lines 95-105: the generic entry, used when checks 1 to 7 gave nothing
Fallback(log_data) ==
    IF "anomaly_score" \in DOMAIN log_data
       /\ log_data["anomaly_score"].n # 0
       /\ RLt(Rat(3, 5), log_data["anomaly_score"])
    THEN <<Msg("behavioral_deviation", "")>>
    ELSE <<Msg("combined_minor_indicators", "")>>

NoOutcome == [status |-> "none", exc |-> "", value |-> <<>>]
Returned(v) == [status |-> "ok", exc |-> "", value |-> v]
Raised(e) == [status |-> "raise", exc |-> e, value |-> <<>>]

\* mutant: the fallback of lines 95-105 left out
generate_explanation_nofallback(log_data, top_features) ==
    LET login_time == Get(log_data, "login_time", <<>>)
    IN  IF Len(login_time) > 0 /\ ~PyInt(SplitFirst(login_time, ":")).ok
        THEN Raised("ValueError")
        ELSE Returned(SpecificExplanations(log_data, top_features))

generate_explanation(log_data, top_features) ==
    LET login_time == Get(log_data, "login_time", <<>>)
    IN  IF Len(login_time) > 0 /\ ~PyInt(SplitFirst(login_time, ":")).ok
        THEN Raised("ValueError")   \* line 76: int() of a non-numeric hour
        ELSE LET explanations == SpecificExplanations(log_data, top_features)
             IN  IF Len(explanations) = 0
                 THEN Returned(Fallback(log_data))
                 ELSE Returned(explanations)

-----------------------------------------------------------------------------
(* ml_model.py.  pandas, StandardScaler and LabelEncoder are modelled by     *)
(* what they compute on integer columns.  A scaled value (x - mean) / scale  *)
(* is kept exactly as num / (den * sqrt(rad)).  The trees that               *)
(* IsolationForest.fit builds are library internals; with random_state=42    *)
(* they are a function of the training frame, and a fitted forest is a       *)
(* fixed, deterministic scoring function of the scaled row that depends on   *)
(* the frame it was fitted on through its number of samples.                 *)

\* the logs offered to the model: two ordinary logs of one user, an
\* attack-like log of another user from a denylisted location, a log whose
\* login_time is not HH:MM, and a log whose resource_access_level is unknown
L1 == [user_id |-> "user_0001", login_location |-> "US-East",
       login_time |-> <<"0", "9", ":", "3", "0">>, failed_login_attempts |-> 0,
       resource_access_level |-> "low", vm_creation_count |-> 0,
       privilege_change |-> FALSE]
L2 == [user_id |-> "user_0001", login_location |-> "EU-West",
       login_time |-> <<"1", "4", ":", "0", "5">>, failed_login_attempts |-> 2,
       resource_access_level |-> "medium", vm_creation_count |-> 1,
       privilege_change |-> FALSE]
L3 == [user_id |-> "user_0002", login_location |-> "Darknet",
       login_time |-> <<"2", "3", ":", "1", "5">>, failed_login_attempts |-> 12,
       resource_access_level |-> "high", vm_creation_count |-> 15,
       privilege_change |-> TRUE]
L4 == [user_id |-> "user_0002", login_location |-> "US-East",
       login_time |-> <<"9", "h", "3", "0">>, failed_login_attempts |-> 1,
       resource_access_level |-> "low", vm_creation_count |-> 0,
       privilege_change |-> FALSE]
L5 == [user_id |-> "user_0003", login_location |-> "US-East",
       login_time |-> <<"1", "0", ":", "0", "0">>, failed_login_attempts |-> 1,
       resource_access_level |-> "admin", vm_creation_count |-> 0,
       privilege_change |-> FALSE]

SampleLogs == <<L1, L2, L3, L4, L5>>

\* the locations of the sample logs in the order numpy sorts them
LocationOrder == <<"Darknet", "EU-West", "US-East">>

\* a function on 1..n as the tuple of its values (a list, fully evaluated)
List(f) == f \o <<>>

RECURSIVE SeqSum(_)
SeqSum(s) == IF Len(s) = 0 THEN 0 ELSE s[Len(s)] + SeqSum(SubSeq(s, 1, Len(s) - 1))

\* a cell of a DataFrame column: an integer, or NaN
Num(x) == [nan |-> FALSE, v |-> x]
NaN == [nan |-> TRUE, v |-> 0]

\* pd.to_datetime(s, format='%H:%M').hour: one or two digits, a colon, one or
\* two digits, hour <= 23 and minute <= 59; anything else raises ValueError
ParseHHMM(t) ==
    LET h == SplitFirst(t, ":")
        m == SubSeq(t, Len(h) + 2, Len(t))
        AllDigits(x) == \A i \in 1..Len(x) : IsDigit(x[i])
    IN  IF /\ Len(h) < Len(t)
           /\ Len(h) \in 1..2 /\ AllDigits(h)
           /\ Len(m) \in 1..2 /\ AllDigits(m)
           /\ DecimalValue(h) <= 23
           /\ DecimalValue(m) <= 59
        THEN [ok |-> TRUE, hour |-> DecimalValue(h)]
        ELSE [ok |-> FALSE, hour |-> 0]

\* ParseHHMM on the login_time values of the sample logs, computed once
SampleTimes == {SampleLogs[i].login_time : i \in 1..Len(SampleLogs)}
ParseTable == [t \in SampleTimes |-> ParseHHMM(t)]
to_datetime(t) == ParseTable[t]

\* line 69-70: Series.map(resource_mapping) gives NaN for a level not in the dict
resource_mapping(level) ==
    CASE level = "low" -> Num(0)
      [] level = "medium" -> Num(1)
      [] level = "high" -> Num(2)
      [] OTHER -> NaN

\* LabelEncoder.fit: classes_ are the distinct labels, sorted
FitClasses(logs) ==
    SelectSeq(LocationOrder,
              LAMBDA l : \E i \in 1..Len(logs) : logs[i].login_location = l)

InSeq(seq, x) == \E i \in 1..Len(seq) : seq[i] = x
IndexOf(seq, x) == CHOOSE i \in 1..Len(seq) : seq[i] = x

\* lines 73-81: the code of a location, -1 when it is not in classes_
LocationCode(classes_, loc) ==
    IF InSeq(classes_, loc) THEN IndexOf(classes_, loc) - 1 ELSE -1

\* lines 47-96: the row of feature_cols for logs[i]; access_spike_score is in
\* tenths (0.3 * failed + 0.7 * vm = (3 * failed + 7 * vm) / 10)
FeatureRow(logs, i, classes_) ==
    LET log == logs[i]
    IN  << Num(log.failed_login_attempts),
           Num(log.vm_creation_count),
           Num(Cardinality({j \in 1..Len(logs) : logs[j].user_id = log.user_id})),
           Num(IF log.login_location \in unusual_locations THEN 1 ELSE 0),
           Num(IF log.privilege_change THEN 1 ELSE 0),
           Num(3 * log.failed_login_attempts + 7 * log.vm_creation_count),
           Num(to_datetime(log.login_time).hour),
           resource_mapping(log.resource_access_level),
           Num(LocationCode(classes_, log.login_location)) >>

\* the unit of column k: access_spike_score is held in tenths
FeatureUnit(k) == IF k = 6 THEN 10 ELSE 1

\* StandardScaler.fit on column k: count, sum and sum of squares of the
\* cells that are not NaN (NaN cells are ignored by fit)
ColumnStats(rows, k) ==
    LET present == SelectSeq([i \in 1..Len(rows) |-> rows[i][k]], LAMBDA c : ~c.nan)
    IN  [n |-> Len(present),
         sum |-> SeqSum(List([i \in 1..Len(present) |-> present[i].v])),
         sumsq |-> SeqSum(List([i \in 1..Len(present) |-> present[i].v * present[i].v]))]

FitStats(rows) == List([k \in 1..Len(feature_cols) |-> ColumnStats(rows, k)])

NaNScaled == [nan |-> TRUE, num |-> 0, den |-> 1, rad |-> 1]

\* StandardScaler.transform on one cell: (x - mean) / scale, scale being the
\* standard deviation, or 1 when the variance is 0.  With mean = sum/n and
\* variance = (n*sumsq - sum^2)/n^2 this is (n*x - sum) / sqrt(n*sumsq - sum^2),
\* or (n*x - sum) / n when the variance is 0.  NaN stays NaN.
ScaleCell(st, c, k) ==
    IF c.nan \/ st.n = 0 THEN NaNScaled
    ELSE LET N == st.n * c.v - st.sum
             D == st.n * st.sumsq - st.sum * st.sum
         IN  IF D > 0 THEN [nan |-> FALSE, num |-> N, den |-> 1, rad |-> D]
             ELSE [nan |-> FALSE, num |-> N, den |-> st.n * FeatureUnit(k), rad |-> 1]

ScaleRows(stats, rows) ==
    List([i \in 1..Len(rows) |->
        List([k \in 1..Len(feature_cols) |-> ScaleCell(stats[k], rows[i][k], k)])])

\* the instance fields after __init__ (lines 21-27)
NoneModel == [state |-> "None", samples |-> 0]
\* IsolationForest(...) of line 127, and the same object after fit(X_train)
UnfittedForest == [state |-> "unfitted", samples |-> 0]
FittedForest(X_train) == [state |-> "fitted", samples |-> Len(X_train)]
NewScaler == [fitted |-> FALSE, stats |-> <<>>]
NewEncoder == [fitted |-> FALSE, classes_ |-> <<>>]
NewSelf == [model |-> NoneModel, scaler |-> NewScaler,
            location_encoder |-> NewEncoder, resource_encoder |-> NewEncoder,
            feature_names |-> <<>>]

\* mutant: LabelEncoder.transform is applied to every location, so one that
\* is not in classes_ raises ValueError (no sentinel of lines 79-80)
preprocess_data_strict(self, logs, fit) ==
    IF Len(logs) = 0
    THEN [exc |-> "KeyError", X |-> <<>>, self |-> self]
    ELSE IF \E i \in 1..Len(logs) : ~to_datetime(logs[i].login_time).ok
    THEN [exc |-> "ValueError", X |-> <<>>, self |-> self]
    ELSE IF ~fit /\ ~self.location_encoder.fitted
    THEN [exc |-> "AttributeError", X |-> <<>>, self |-> self]
    ELSE IF ~fit /\ \E i \in 1..Len(logs) :
                       ~InSeq(self.location_encoder.classes_, logs[i].login_location)
    THEN [exc |-> "ValueError", X |-> <<>>, self |-> self]
    ELSE
      LET enc == IF fit THEN [fitted |-> TRUE, classes_ |-> FitClasses(logs)]
                 ELSE self.location_encoder
          rows == List([i \in 1..Len(logs) |-> FeatureRow(logs, i, enc.classes_)])
          self1 == [self EXCEPT !.location_encoder = enc,
                                !.feature_names = feature_cols]
      IN  IF ~fit /\ ~self.scaler.fitted
          THEN [exc |-> "NotFittedError", X |-> <<>>, self |-> self1]
          ELSE LET sc == IF fit THEN [fitted |-> TRUE, stats |-> FitStats(rows)]
                         ELSE self.scaler
               IN  [exc |-> "", X |-> ScaleRows(sc.stats, rows),
                    self |-> [self1 EXCEPT !.scaler = sc]]

\* preprocess_data(logs, fit): the exception it raises ("" when none), the
\* scaled frame it returns and the instance fields as it leaves them
preprocess_data(self, logs, fit) ==
    IF Len(logs) = 0
    THEN [exc |-> "KeyError", X |-> <<>>, self |-> self]          \* line 49
    ELSE IF \E i \in 1..Len(logs) : ~to_datetime(logs[i].login_time).ok
    THEN [exc |-> "ValueError", X |-> <<>>, self |-> self]        \* line 66
    ELSE IF ~fit /\ ~self.location_encoder.fitted
    THEN [exc |-> "AttributeError", X |-> <<>>, self |-> self]    \* line 79
    ELSE
      LET enc == IF fit THEN [fitted |-> TRUE, classes_ |-> FitClasses(logs)]
                 ELSE self.location_encoder
          rows == List([i \in 1..Len(logs) |-> FeatureRow(logs, i, enc.classes_)])
          self1 == [self EXCEPT !.location_encoder = enc,
                                !.feature_names = feature_cols]
      IN  IF ~fit /\ ~self.scaler.fitted
          THEN [exc |-> "NotFittedError", X |-> <<>>, self |-> self1]  \* line 103
          ELSE LET sc == IF fit THEN [fitted |-> TRUE, stats |-> FitStats(rows)]
                         ELSE self.scaler
               IN  [exc |-> "", X |-> ScaleRows(sc.stats, rows),
                    self |-> [self1 EXCEPT !.scaler = sc]]

HasNaN(X) == \E i \in 1..Len(X) : \E k \in 1..Len(X[i]) : X[i][k].nan

\* the integer part of the squared scaled value
ZSq(c) == (c.num * c.num) \div (c.den * c.den * c.rad)

\* IsolationForest.decision_function on one row: lower is more anomalous,
\* negative is an outlier.  The forest weighs how far each feature lies from
\* the training data; which features weigh double depends on the trees built.
decision_function(forest, row) ==
    forest.samples
    - SeqSum(List([k \in 1..Len(row) |-> (1 + ((k + forest.samples) % 2)) * ZSq(row[k])]))

\* IsolationForest.predict on one row: -1 for an outlier, 1 for an inlier
forest_predict(forest, row) == IF decision_function(forest, row) < 0 THEN -1 ELSE 1

SeqMin(s) == CHOOSE x \in {s[i] : i \in 1..Len(s)} : \A i \in 1..Len(s) : x <= s[i]
SeqMax(s) == CHOOSE x \in {s[i] : i \in 1..Len(s)} : \A i \in 1..Len(s) : x >= s[i]

\* mutant: the inversion of line 182 left out
anomaly_scores_noinvert(raw_scores) ==
    LET min_score == SeqMin(raw_scores)
        max_score == SeqMax(raw_scores)
    IN  IF max_score - min_score > 0
        THEN List([i \in 1..Len(raw_scores) |->
                 Rat(raw_scores[i] - min_score, max_score - min_score)])
        ELSE List([i \in 1..Len(raw_scores) |-> RInt(0)])

\* lines 176-184: min-max scaling of the raw scores, inverted
\* (1 - (raw - min) / (max - min) = (max - raw) / (max - min))
anomaly_scores(raw_scores) ==
    LET min_score == SeqMin(raw_scores)
        max_score == SeqMax(raw_scores)
    IN  IF max_score - min_score > 0
        THEN List([i \in 1..Len(raw_scores) |->
                 RSub(RInt(1), Rat(raw_scores[i] - min_score, max_score - min_score))])
        ELSE List([i \in 1..Len(raw_scores) |-> RInt(0)])

\* the scoring part of predict (lines 164-192), after the guard of line 161
Score(self, logs, s1, X) ==
    IF s1.model.state = "unfitted"
    THEN [outcome |-> Raised("NotFittedError"), raw |-> <<>>, self |-> s1]
    ELSE IF HasNaN(X)
    THEN [outcome |-> Raised("ValueError"), raw |-> <<>>, self |-> s1]
    ELSE LET raw_scores == List([i \in 1..Len(X) |-> decision_function(s1.model, X[i])])
             predictions == List([i \in 1..Len(X) |-> forest_predict(s1.model, X[i])])
             scores == anomaly_scores(raw_scores)
         IN  [outcome |-> Returned(List([i \in 1..Len(X) |-> <<scores[i], predictions[i] = -1>>])),
              raw |-> raw_scores, self |-> s1]

\* mutant: a location not in classes_ is added to them once the batch is scored
predict_learn(self, logs) ==
    IF self.model.state = "None"
    THEN [outcome |-> Raised("ValueError"), raw |-> <<>>, self |-> self]
    ELSE LET p == preprocess_data(self, logs, FALSE)
             r == Score(self, logs, p.self, p.X)
             seen == self.location_encoder.classes_
             learnt == SelectSeq(LocationOrder,
                           LAMBDA l : InSeq(seen, l)
                                      \/ \E i \in 1..Len(logs) : logs[i].login_location = l)
         IN  IF p.exc # ""
             THEN [outcome |-> Raised(p.exc), raw |-> <<>>, self |-> p.self]
             ELSE [r EXCEPT !.self.location_encoder.classes_ = learnt]

\* predict(logs): its outcome, the local raw_scores, and the instance fields
\* as it leaves them
predict(self, logs) ==
    IF self.model.state = "None"
    THEN [outcome |-> Raised("ValueError"), raw |-> <<>>, self |-> self]  \* line 162
    ELSE LET p == preprocess_data(self, logs, FALSE)
         IN  IF p.exc # ""
             THEN [outcome |-> Raised(p.exc), raw |-> <<>>, self |-> p.self]
             ELSE Score(self, logs, p.self, p.X)

\* abs(value) of a scaled cell; abs(NaN) is NaN
AbsCell(c) == [c EXCEPT !.num = Abs(c.num)]

\* a < b on two magnitudes num / (den * sqrt(rad)), num >= 0, compared by
\* their squares; every comparison with NaN is False
MagLt(a, b) ==
    /\ ~a.nan
    /\ ~b.nan
    /\ a.num * a.num * b.den * b.den * b.rad < b.num * b.num * a.den * a.den * a.rad

\* x[1] < y[1] on the keys of line 217 (key=lambda x: x[1])
KeyLt(x, y) == MagLt(x[2], y[2])

Reverse(s) == List([i \in 1..Len(s) |-> s[Len(s) + 1 - i]])

\* list.sort on a list shorter than 64 (CPython listobject.c): count_run finds
\* the run the list starts with, binarysort inserts the rest one by one
RECURSIVE RunEnd(_, _, _)
RunEnd(s, i, descending) ==
    IF i < Len(s) /\ (IF descending THEN KeyLt(s[i + 1], s[i]) ELSE ~KeyLt(s[i + 1], s[i]))
    THEN RunEnd(s, i + 1, descending)
    ELSE i

RECURSIVE BinPos(_, _, _, _)
BinPos(s, pivot, l, r) ==
    IF l >= r THEN l
    ELSE LET p == l + ((r - l) \div 2)
         IN  IF KeyLt(pivot, s[p]) THEN BinPos(s, pivot, l, p)
             ELSE BinPos(s, pivot, p + 1, r)

RECURSIVE BinarySort(_, _)
BinarySort(s, i) ==
    IF i > Len(s) THEN s
    ELSE LET pos == BinPos(s, s[i], 1, i)
         IN  BinarySort(SubSeq(s, 1, pos - 1) \o <<s[i]>> \o SubSeq(s, pos, i - 1)
                            \o SubSeq(s, i + 1, Len(s)),
                        i + 1)

PySort(s) ==
    IF Len(s) < 2 THEN s
    ELSE LET descending == KeyLt(s[2], s[1])
             run == RunEnd(s, 2, descending)
             s1 == IF descending
                   THEN Reverse(SubSeq(s, 1, run)) \o SubSeq(s, run + 1, Len(s))
                   ELSE s
         IN  BinarySort(s1, run + 1)

\* line 217: importances.sort(key=lambda x: x[1], reverse=True); reverse=True
\* reverses the list, sorts it ascending and reverses it again
sort_reverse(importances) == Reverse(PySort(Reverse(importances)))

\* mutant: the record is preprocessed with fit=True, which refits the encoder
\* and the scaler on it
get_feature_importance_refit(self, log) ==
    LET p == preprocess_data(self, <<log>>, TRUE)
    IN  IF p.exc # ""
        THEN [outcome |-> Raised(p.exc), self |-> p.self]
        ELSE LET importances ==
                     List([k \in 1..Len(feature_cols) |->
                              <<feature_cols[k], AbsCell(p.X[1][k])>>])
             IN  [outcome |-> Returned(SubSeq(sort_reverse(importances), 1, 5)),
                  self |-> p.self]

\* get_feature_importance(log): its outcome and the instance fields as it
\* leaves them.  There is no guard on self.model.
get_feature_importance(self, log) ==
    LET p == preprocess_data(self, <<log>>, FALSE)                 \* line 206
    IN  IF p.exc # ""
        THEN [outcome |-> Raised(p.exc), self |-> p.self]
        ELSE LET importances ==                                    \* lines 209-214
                     List([k \in 1..Len(feature_cols) |->
                              <<feature_cols[k], AbsCell(p.X[1][k])>>])
                 sorted == sort_reverse(importances)               \* line 217
             IN  [outcome |-> Returned(SubSeq(sorted, 1, 5)),      \* line 219
                  self |-> p.self]

\* mutant: the scaler is left out of the bundle, so a load finds a new one
Bundle_noscaler(self) ==
    [model |-> self.model, scaler |-> NewScaler,
     location_encoder |-> self.location_encoder,
     resource_encoder |-> self.resource_encoder,
     feature_names |-> self.feature_names]

\* the dict save_model writes (lines 225-231); joblib keeps each object as it is
Bundle(self) ==
    [model |-> self.model, scaler |-> self.scaler,
     location_encoder |-> self.location_encoder,
     resource_encoder |-> self.resource_encoder,
     feature_names |-> self.feature_names]

NoArtifact == [exists |-> FALSE, data |-> NewSelf]

\* train(normal_logs): saveOk is whether joblib.dump succeeds
train(self, logs, saveOk, file) ==
    LET p == preprocess_data(self, logs, TRUE)
        s1 == [p.self EXCEPT !.model = UnfittedForest]       \* line 127
        s2 == [s1 EXCEPT !.model = FittedForest(p.X)]        \* line 135
    IN  IF p.exc # ""
        THEN [outcome |-> Raised(p.exc), self |-> p.self, artifact |-> file]
        ELSE IF HasNaN(p.X)
        THEN [outcome |-> Raised("ValueError"), self |-> s1, artifact |-> file]
        ELSE IF ~saveOk
        THEN [outcome |-> Raised("OSError"), self |-> s2, artifact |-> file]
        ELSE [outcome |-> Returned([training_samples |-> Len(logs),
                                    features |-> s2.feature_names,
                                    model_type |-> "IsolationForest"]),
              self |-> s2,
              artifact |-> [exists |-> TRUE, data |-> Bundle(s2)]]

\* mutant: the fields are cleared before the file is looked for
load_model_clear(self, file) ==
    IF ~file.exists
    THEN [outcome |-> Raised("FileNotFoundError"), self |-> NewSelf]
    ELSE [outcome |-> Returned(<<>>), self |-> file.data]

\* load_model()
load_model(self, file) ==
    IF ~file.exists
    THEN [outcome |-> Raised("FileNotFoundError"), self |-> self]   \* line 237
    ELSE [outcome |-> Returned(<<>>),                               \* lines 239-244
          self |-> [model |-> file.data.model, scaler |-> file.data.scaler,
                    location_encoder |-> file.data.location_encoder,
                    resource_encoder |-> file.data.resource_encoder,
                    feature_names |-> file.data.feature_names]]

\* the instance and the file before any call
NoCall == [op |-> "__init__", batch |-> <<>>, outcome |-> NoOutcome, raw |-> <<>>]
NoRepeat == [is |-> FALSE, first |-> NoOutcome]

InitMl ==
    /\ model = NewSelf.model
    /\ scaler = NewSelf.scaler
    /\ location_encoder = NewSelf.location_encoder
    /\ resource_encoder = NewSelf.resource_encoder
    /\ feature_names = NewSelf.feature_names
    /\ artifact = NoArtifact
    /\ call = NoCall
    /\ repeat = NoRepeat
    /\ installed = FALSE

-----------------------------------------------------------------------------
(* SpecRisk: calls of the risk engine on bounded inputs *)

AnomalyScores == {Rat(k, AnomalyDen) : k \in 0..AnomalyDen}

RiskArgs == [anomaly_score : AnomalyScores,
             failed_login_attempts : 0..MaxFailed,
             privilege_change : BOOLEAN,
             vm_creation_count : 0..MaxVm]

NoRiskArgs == [anomaly_score |-> RInt(0), failed_login_attempts |-> 0,
               privilege_change |-> FALSE, vm_creation_count |-> 0]
NoRiskOut == [risk_score |-> RInt(0), risk_level |-> "none"]
NoRiskPrev == [has |-> FALSE, args |-> NoRiskArgs, out |-> NoRiskOut]

RiskIdle ==
    /\ rPc = "idle"
    /\ rArgs = NoRiskArgs
    /\ rOut = NoRiskOut
    /\ rPrev = NoRiskPrev

ClassIdle ==
    /\ cPc = "idle"
    /\ cIn = RInt(0)
    /\ cOut = "none"

ExplIdle ==
    /\ ePc = "idle"
    /\ eLog = <<>>
    /\ eTop = [none |-> TRUE, items |-> <<>>]
    /\ eOut = NoOutcome

NoRuns == [location_encoder |-> 0, scaler |-> 0, model |-> 0, file |-> 0]
NoObserved == [is |-> FALSE, location_encoder |-> 0, scaler |-> 0, model |-> 0,
               fitted |-> FALSE, overlapped |-> FALSE]
NoRequest == [is |-> FALSE, overlapped |-> FALSE]

ServeIdle ==
    /\ tPc = "idle"
    /\ tLogs = <<>>
    /\ runNo = 0
    /\ runs = NoRuns
    /\ observed = NoObserved
    /\ waiting = NoRequest

\* no request answered yet
NoResponse == [handler |-> "", status |-> 0, raised |-> 0, details |-> <<>>]

\* the table as init_db creates it, and no request made
ApiIdle == db = <<>> /\ resp = NoResponse

\* the dict main.py builds for calculate_and_classify
RiskLogData(a) ==
    [k \in {"failed_login_attempts", "privilege_change", "vm_creation_count"} |->
        CASE k = "failed_login_attempts" -> a.failed_login_attempts
          [] k = "privilege_change" -> a.privilege_change
          [] OTHER -> a.vm_creation_count]

InitRisk ==
    /\ rPc = "call"
    /\ rArgs \in RiskArgs
    /\ rOut = NoRiskOut
    /\ rPrev = NoRiskPrev
    /\ ClassIdle
    /\ ExplIdle
    /\ InitMl
    /\ ServeIdle
    /\ ApiIdle

RiskCall ==
    /\ rPc = "call"
    /\ rOut' = calculate_and_classify(RiskLogData(rArgs), rArgs.anomaly_score)
    /\ rPc' = "done"
    /\ UNCHANGED <<rArgs, rPrev, classVars, explVars, mlVars, serveVars, apiVars>>

\* a second call whose arguments differ from the first in one input, raised
RaisedArgs(a) ==
    {[a EXCEPT !.anomaly_score = x] : x \in {y \in AnomalyScores : RLt(a.anomaly_score, y)}}
    \cup {[a EXCEPT !.failed_login_attempts = x] : x \in (a.failed_login_attempts + 1)..MaxFailed}
    \cup {[a EXCEPT !.vm_creation_count = x] : x \in (a.vm_creation_count + 1)..MaxVm}
    \cup (IF a.privilege_change THEN {} ELSE {[a EXCEPT !.privilege_change = TRUE]})

RiskRaise ==
    /\ rPc = "done"
    /\ ~rPrev.has
    /\ \E b \in RaisedArgs(rArgs) :
          /\ rPrev' = [has |-> TRUE, args |-> rArgs, out |-> rOut]
          /\ rArgs' = b
    /\ rOut' = NoRiskOut
    /\ rPc' = "call"
    /\ UNCHANGED <<classVars, explVars, mlVars, serveVars, apiVars>>

NextRisk == RiskCall \/ RiskRaise

SpecRisk == InitRisk /\ [][NextRisk]_vars

-----------------------------------------------------------------------------
(* SpecClassify: classify_risk_level on bounded risk scores *)

ScoreDomain == {Rat(n, d) : n \in 0..(MaxScore * ScoreDen), d \in 1..ScoreDen}

InitClassify ==
    /\ cPc = "call"
    /\ cIn \in ScoreDomain
    /\ cOut = "none"
    /\ RiskIdle
    /\ ExplIdle
    /\ InitMl
    /\ ServeIdle
    /\ ApiIdle

ClassifyCall ==
    /\ cPc = "call"
    /\ cOut' = classify_risk_level(cIn)
    /\ cPc' = "done"
    /\ UNCHANGED <<cIn, riskVars, explVars, mlVars, serveVars, apiVars>>

NextClassify == ClassifyCall

SpecClassify == InitClassify /\ [][NextClassify]_vars

-----------------------------------------------------------------------------
(* SpecExplain: generate_explanation on bounded records *)

\* a value of a dict key: present with a value of S, or the key absent
Opt(S, dummy) ==
    {[present |-> TRUE, v |-> x] : x \in S} \cup {[present |-> FALSE, v |-> dummy]}

LogKeys == {"login_location", "failed_login_attempts", "privilege_change",
            "vm_creation_count", "resource_access_level", "login_time",
            "anomaly_score"}

MkDict(o) == [k \in {j \in LogKeys : o[j].present} |-> o[k].v]

\* login_time values: HH:MM inside and outside business hours at each edge,
\* and strings that are not of that form
ExplTimes ==
    { <<"0", "9", ":", "3", "0">>, <<"0", "5", ":", "5", "9">>,
      <<"2", "3", ":", "0", "0">>, <<"2", "2", ":", "5", "9">>,
      <<"0", "0", ":", "0", "0">>, <<"0", "6", ":", "0", "0">>,
      <<"9", "h", "3", "0">>, <<>> }

ExplTops ==
    { [none |-> TRUE, items |-> <<>>],
      [none |-> FALSE, items |-> <<>>],
      [none |-> FALSE, items |-> << <<"login_hour", Importance(9, 10)>>,
                                    <<"location_encoded", Importance(1, 2)>> >>],
      [none |-> FALSE, items |-> << <<"login_hour", Importance(2, 5)>>,
                                    <<"login_frequency", Importance(1, 10)>>,
                                    <<"location_encoded", Importance(0, 1)>>,
                                    <<"access_spike_score", Importance(3, 1)>> >>],
      [none |-> FALSE, items |-> << <<"vm_creation_count", Importance(5, 2)>>,
                                    <<"resource_access_encoded", NaNImportance>>,
                                    <<"failed_login_attempts", Importance(3, 5)>>,
                                    <<"login_hour", Importance(3, 5)>>,
                                    <<"login_frequency", Importance(1, 2)>> >>] }

ExplOptions ==
    [login_location : Opt({"US-East", "Darknet"}, ""),
     failed_login_attempts : Opt(0..ExplMaxFailed, 0),
     privilege_change : Opt(BOOLEAN, FALSE),
     vm_creation_count : Opt(0..ExplMaxVm, 0),
     resource_access_level : Opt({"low", "high"}, ""),
     login_time : Opt(ExplTimes, <<>>),
     anomaly_score : Opt({RInt(0), Rat(3, 5), Rat(7, 10)}, RInt(0))]

InitExplain ==
    /\ ePc = "call"
    /\ \E o \in ExplOptions : eLog = MkDict(o)
    /\ eTop \in ExplTops
    /\ eOut = NoOutcome
    /\ RiskIdle
    /\ ClassIdle
    /\ InitMl
    /\ ServeIdle
    /\ ApiIdle

ExplainCall ==
    /\ ePc = "call"
    /\ eOut' = generate_explanation(eLog, eTop)
    /\ ePc' = "done"
    /\ UNCHANGED <<eLog, eTop, riskVars, classVars, mlVars, serveVars, apiVars>>

NextExplain == ExplainCall

SpecExplain == InitExplain /\ [][NextExplain]_vars

-----------------------------------------------------------------------------
(* Spec: one CloudSecurityMLModel instance and the artifact at model_path *)

\* the batches passed to predict: up to MaxBatch sample logs; predict treats
\* the rows of a batch alike, so batches are listed in the order of SampleLogs
Batches ==
    LET Ordered(k) == {ix \in [1..k -> 1..Len(SampleLogs)] :
                          \A i \in 1..(k - 1) : ix[i] <= ix[i + 1]}
    IN  UNION {{List([i \in 1..k |-> SampleLogs[ix[i]]]) : ix \in Ordered(k)} :
               k \in 0..MaxBatch}

\* the batches passed to train: empty, constant, varied, with the attack-like
\* log, with a malformed login_time, with an unknown resource_access_level
TrainingSets == { <<>>, <<L1>>, <<L1, L2>>, <<L1, L2, L3>>, <<L1, L4>>, <<L1, L5>> }

Self == [model |-> model, scaler |-> scaler, location_encoder |-> location_encoder,
         resource_encoder |-> resource_encoder, feature_names |-> feature_names]

SetSelf(s) ==
    /\ model' = s.model
    /\ scaler' = s.scaler
    /\ location_encoder' = s.location_encoder
    /\ resource_encoder' = s.resource_encoder
    /\ feature_names' = s.feature_names

Init ==
    /\ InitMl
    /\ RiskIdle
    /\ ClassIdle
    /\ ExplIdle
    /\ ServeIdle
    /\ ApiIdle

Train ==
    \E logs \in TrainingSets, saveOk \in BOOLEAN :
        LET r == train(Self, logs, saveOk, artifact)
        IN  /\ SetSelf(r.self)
            /\ artifact' = r.artifact
            /\ call' = [op |-> "train", batch |-> logs, outcome |-> r.outcome, raw |-> <<>>]
            /\ repeat' = NoRepeat
            /\ installed' = (installed \/ r.outcome.status = "ok")
            /\ UNCHANGED <<riskVars, classVars, explVars, serveVars, apiVars>>

Predict ==
    \E logs \in Batches :
        LET r == predict(Self, logs)
            again == call.op = "predict" /\ call.batch = logs
        IN  /\ SetSelf(r.self)
            /\ call' = [op |-> "predict", batch |-> logs, outcome |-> r.outcome, raw |-> r.raw]
            /\ repeat' = IF again THEN [is |-> TRUE, first |-> call.outcome] ELSE NoRepeat
            /\ UNCHANGED <<artifact, installed, riskVars, classVars, explVars, serveVars, apiVars>>

GetFeatureImportance ==
    \E i \in 1..Len(SampleLogs) :
        LET r == get_feature_importance(Self, SampleLogs[i])
        IN  /\ SetSelf(r.self)
            /\ call' = [op |-> "get_feature_importance", batch |-> <<SampleLogs[i]>>,
                        outcome |-> r.outcome, raw |-> <<>>]
            /\ repeat' = NoRepeat
            /\ UNCHANGED <<artifact, installed, riskVars, classVars, explVars, serveVars, apiVars>>

LoadModel ==
    LET r == load_model(Self, artifact)
    IN  /\ SetSelf(r.self)
        /\ call' = [op |-> "load_model", batch |-> <<>>, outcome |-> r.outcome, raw |-> <<>>]
        /\ repeat' = NoRepeat
        /\ installed' = (installed \/ r.outcome.status = "ok")
        /\ UNCHANGED <<artifact, riskVars, classVars, explVars, serveVars, apiVars>>

\* the process restarts: main.py line 44 builds a new instance, the file stays
NewInstance ==
    /\ SetSelf(NewSelf)
    /\ call' = NoCall
    /\ repeat' = NoRepeat
    /\ installed' = FALSE
    /\ UNCHANGED <<artifact, riskVars, classVars, explVars, serveVars, apiVars>>

Next == Train \/ Predict \/ GetFeatureImportance \/ LoadModel \/ NewInstance

Spec == Init /\ [][Next]_vars

-----------------------------------------------------------------------------
(* SpecServe: the request handlers of main.py that use ml_model, in one      *)
(* server process.  train_model, analyze_logs and get_alerts are coroutines  *)
(* (async def) whose bodies hold no await, so the event loop runs each of    *)
(* them from its first line to its last before it starts another.  train is  *)
(* taken one assignment at a time, to show what a handler would find if it   *)
(* ran in between.                                                           *)

\* mutant: the handlers are plain functions, which the server runs on worker
\* threads: one is started whatever the others are doing
LoopFree_threads(pc) == TRUE

\* the event loop starts a handler only when no handler is running; pc is the
\* position of train_model, the one handler taken in steps
LoopFree(pc) == pc = "idle"

\* the batches analyze_logs scores (all the logs of the database)
ServeBatches == { <<>>, <<L1>>, <<L1, L2, L3>> }

\* the alerts get_alerts explains
ServeAlerts == { L2, L3 }

\* analyze_logs, lines 168-202: load the model if there is none in memory,
\* then predict; loaded tells whether load_model assigned the fields
analyze_logs(self, file, logs) ==
    IF self.model.state = "None" /\ ~file.exists
    THEN [outcome |-> Raised("HTTPException"), raw |-> <<>>, self |-> self,
          loaded |-> FALSE, scored |-> FALSE]                        \* line 173
    ELSE LET loaded == self.model.state = "None"
             s1 == IF loaded THEN load_model(self, file).self ELSE self \* line 171
         IN  IF Len(logs) = 0
             THEN [outcome |-> Raised("HTTPException"), raw |-> <<>>, self |-> s1,
                   loaded |-> loaded, scored |-> FALSE]              \* line 182
             ELSE LET r == predict(s1, logs)                         \* line 202
                  IN  [outcome |-> r.outcome, raw |-> r.raw, self |-> r.self,
                       loaded |-> loaded, scored |-> TRUE]

\* what a scoring call finds in runs
Observe(r, forest, overlapped) ==
    [is |-> TRUE, location_encoder |-> r.location_encoder, scaler |-> r.scaler,
     model |-> r.model, fitted |-> forest.state = "fitted", overlapped |-> overlapped]

\* runs after load_model has assigned every field from the artifact
LoadedRuns(r) ==
    [location_encoder |-> r.file, scaler |-> r.file, model |-> r.file, file |-> r.file]

ServeFrame == UNCHANGED <<riskVars, classVars, explVars, repeat, installed, apiVars>>

InitServe ==
    /\ InitMl
    /\ RiskIdle
    /\ ClassIdle
    /\ ExplIdle
    /\ ServeIdle
    /\ ApiIdle

\* a client sends a request to /analyze-logs or /alerts
ScoreRequest ==
    /\ ~waiting.is
    /\ waiting' = [is |-> TRUE, overlapped |-> tPc # "idle"]
    /\ UNCHANGED <<fieldVars, artifact, call, tPc, tLogs, runNo, runs, observed>>
    /\ ServeFrame

\* the event loop runs analyze_logs
AnalyzeLogs ==
    /\ waiting.is
    /\ LoopFree(tPc)
    /\ \E logs \in ServeBatches :
          LET r == analyze_logs(Self, artifact, logs)
              runs1 == IF r.loaded THEN LoadedRuns(runs) ELSE runs
          IN  /\ SetSelf(r.self)
              /\ runs' = runs1
              /\ observed' = IF r.scored THEN Observe(runs1, r.self.model, waiting.overlapped)
                             ELSE observed
              /\ call' = [op |-> "predict", batch |-> logs, outcome |-> r.outcome,
                          raw |-> r.raw]
    /\ waiting' = NoRequest
    /\ UNCHANGED <<artifact, tPc, tLogs, runNo>>
    /\ ServeFrame

\* the event loop runs get_alerts: lines 286-290 call get_feature_importance
\* when there is a model in memory and swallow what it raises
GetAlerts ==
    /\ waiting.is
    /\ LoopFree(tPc)
    /\ \E log \in ServeAlerts :
          IF model.state # "None"
          THEN LET r == get_feature_importance(Self, log)
               IN  /\ SetSelf(r.self)
                   /\ observed' = Observe(runs, model, waiting.overlapped)
                   /\ call' = [op |-> "get_feature_importance", batch |-> <<log>>,
                               outcome |-> r.outcome, raw |-> <<>>]
          ELSE UNCHANGED <<fieldVars, observed, call>>
    /\ waiting' = NoRequest
    /\ UNCHANGED <<artifact, tPc, tLogs, runNo, runs>>
    /\ ServeFrame

\* the event loop starts train_model, which runs as far as line 74 of
\* ml_model.py: no logs gives HTTP 400 (main.py lines 129-133), a log that
\* does not parse raises before any field is assigned, otherwise the location
\* encoder is refitted
TrainEncode ==
    /\ LoopFree(tPc)
    /\ runNo < MaxRuns
    /\ \E logs \in TrainingSets :
          LET p == preprocess_data(Self, logs, TRUE)
          IN  IF Len(logs) = 0
              THEN /\ call' = [op |-> "train", batch |-> logs,
                               outcome |-> Raised("HTTPException"), raw |-> <<>>]
                   /\ UNCHANGED <<fieldVars, tPc, tLogs, runNo, runs>>
              ELSE IF p.exc # ""
              THEN /\ call' = [op |-> "train", batch |-> logs,
                               outcome |-> Raised(p.exc), raw |-> <<>>]
                   /\ runNo' = runNo + 1
                   /\ UNCHANGED <<fieldVars, tPc, tLogs, runs>>
              ELSE /\ location_encoder' = p.self.location_encoder      \* line 74
                   /\ runNo' = runNo + 1
                   /\ runs' = [runs EXCEPT !.location_encoder = runNo + 1]
                   /\ tPc' = "encoded"
                   /\ tLogs' = logs
                   /\ UNCHANGED <<model, scaler, resource_encoder, feature_names, call>>
    /\ UNCHANGED <<artifact, observed, waiting>>
    /\ ServeFrame

\* lines 97-101: feature_names is set and the scaler refitted
TrainScale ==
    /\ tPc = "encoded"
    /\ LET p == preprocess_data(Self, tLogs, TRUE)
       IN  /\ feature_names' = p.self.feature_names
           /\ scaler' = p.self.scaler
    /\ runs' = [runs EXCEPT !.scaler = runNo]
    /\ tPc' = "scaled"
    /\ UNCHANGED <<model, location_encoder, resource_encoder, artifact, call,
                   tLogs, runNo, observed, waiting>>
    /\ ServeFrame

\* line 127: self.model is replaced by a new, unfitted IsolationForest
TrainConstruct ==
    /\ tPc = "scaled"
    /\ model' = UnfittedForest
    /\ runs' = [runs EXCEPT !.model = runNo]
    /\ tPc' = "constructed"
    /\ UNCHANGED <<scaler, location_encoder, resource_encoder, feature_names,
                   artifact, call, tLogs, runNo, observed, waiting>>
    /\ ServeFrame

\* line 135: the forest is fitted, or fit raises on a frame that holds NaN
\* and the handler ends
TrainFit ==
    /\ tPc = "constructed"
    /\ LET p == preprocess_data(Self, tLogs, TRUE)
       IN  IF HasNaN(p.X)
           THEN /\ call' = [op |-> "train", batch |-> tLogs,
                            outcome |-> Raised("ValueError"), raw |-> <<>>]
                /\ tPc' = "idle"
                /\ tLogs' = <<>>
                /\ UNCHANGED model
           ELSE /\ model' = FittedForest(p.X)
                /\ tPc' = "fitted"
                /\ UNCHANGED <<call, tLogs>>
    /\ UNCHANGED <<scaler, location_encoder, resource_encoder, feature_names,
                   artifact, runNo, runs, observed, waiting>>
    /\ ServeFrame

\* line 138: save_model writes the artifact, or raises; the handler ends
TrainSave ==
    /\ tPc = "fitted"
    /\ \E saveOk \in BOOLEAN :
          IF saveOk
          THEN /\ artifact' = [exists |-> TRUE, data |-> Bundle(Self)]
               /\ runs' = [runs EXCEPT !.file = runNo]
               /\ call' = [op |-> "train", batch |-> tLogs, raw |-> <<>>,
                           outcome |-> Returned([training_samples |-> Len(tLogs),
                                                 features |-> feature_names,
                                                 model_type |-> "IsolationForest"])]
          ELSE /\ call' = [op |-> "train", batch |-> tLogs,
                           outcome |-> Raised("OSError"), raw |-> <<>>]
               /\ UNCHANGED <<artifact, runs>>
    /\ tPc' = "idle"
    /\ tLogs' = <<>>
    /\ UNCHANGED <<fieldVars, runNo, observed, waiting>>
    /\ ServeFrame

\* the process is restarted, whatever it was doing: main.py line 44 builds a
\* new instance and startup_event (lines 47-56) loads the artifact if any
Startup ==
    /\ SetSelf(IF artifact.exists THEN load_model(NewSelf, artifact).self ELSE NewSelf)
    /\ runs' = IF artifact.exists THEN LoadedRuns(runs)
               ELSE [NoRuns EXCEPT !.file = runs.file]
    /\ tPc' = "idle"
    /\ tLogs' = <<>>
    /\ waiting' = NoRequest
    /\ observed' = NoObserved
    /\ call' = NoCall
    /\ UNCHANGED <<artifact, runNo>>
    /\ ServeFrame

NextServe ==
    \/ ScoreRequest
    \/ AnalyzeLogs
    \/ GetAlerts
    \/ TrainEncode
    \/ TrainScale
    \/ TrainConstruct
    \/ TrainFit
    \/ TrainSave
    \/ Startup

SpecServe == InitServe /\ [][NextServe]_vars

-----------------------------------------------------------------------------
(* SpecApi: the routes of main.py that write the cloud_logs table or use     *)
(* ml_model, each handler run whole (see SpecServe).  The table holds what   *)
(* the handlers put there.  simulator.py draws the logs at random; here a    *)
(* generator returns one of a few lists of logs inside its ranges.           *)

\* generate_normal_logs: a normal location, 0 to 2 failed attempts, 0 to 2
\* VMs, no privilege change;  generate_anomalous_logs: here the "combined"
\* kind, an unusual location, 5 to 15 failed attempts, a privilege change
GeneratedSets ==
    { [normal |-> <<L1, L2>>, anomalous |-> <<L3>>],
      [normal |-> <<L1, L1>>, anomalous |-> <<L3>>],
      [normal |-> <<L1, L2>>, anomalous |-> <<>>] }

\* one log of generate_attack_simulation_logs (simulator.py lines 181-191):
\* one of the first 50 users, an unusual location, 10 to 20 failed attempts,
\* 10 to 25 VMs, high access, a privilege change
attack_log(user_id, login_time, failed_login_attempts, vm_creation_count) ==
    [user_id |-> user_id, login_location |-> "Darknet", login_time |-> login_time,
     failed_login_attempts |-> failed_login_attempts,
     resource_access_level |-> "high", vm_creation_count |-> vm_creation_count,
     privilege_change |-> TRUE]

A1 == attack_log("user_0001", L3.login_time, 10, 10)
A2 == attack_log("user_0002", L5.login_time, 20, 25)
A3 == attack_log("user_0001", L1.login_time, 15, 10)

\* the lists generate_attack_simulation_logs returns
AttackSets == { <<A1, A1>>, <<A1, A2>>, <<A2, A3>> }

\* a column that is NULL, and a column that holds v
NoneValue(dummy) == [is_none |-> TRUE, v |-> dummy]
Stored(v) == [is_none |-> FALSE, v |-> v]

\* CloudLog(**log_data): the ML and risk columns are nullable and start NULL
CloudLog(log_data, is_anomaly) ==
    [log |-> log_data, is_anomaly |-> is_anomaly,
     anomaly_score |-> NoneValue(RInt(0)), risk_score |-> NoneValue(RInt(0)),
     risk_level |-> NoneValue("")]

NewRows(logs, is_anomaly) == List([i \in 1..Len(logs) |-> CloudLog(logs[i], is_anomaly)])

\* the dicts the handlers build from rows for ml_model
LogDicts(rows) == List([i \in 1..Len(rows) |-> rows[i].log])

\* mutant: calculate_and_classify given an empty dict
RiskInputs_empty(row) == <<>>

\* the dict the handlers pass to calculate_and_classify
RiskInputs(row) ==
    [k \in {"failed_login_attempts", "privilege_change", "vm_creation_count"} |->
        row.log[k]]

\* mutant: risk_level is not written
ScoreRow_nolevel(row, anomaly_score) ==
    LET r == calculate_and_classify(RiskInputs(row), anomaly_score)
    IN  [row EXCEPT !.anomaly_score = Stored(anomaly_score),
                    !.risk_score = Stored(r.risk_score)]

\* one turn of the scoring loop: the three columns of a row are written
ScoreRow(row, anomaly_score) ==
    LET r == calculate_and_classify(RiskInputs(row), anomaly_score)
    IN  [row EXCEPT !.anomaly_score = Stored(anomaly_score),
                    !.risk_score = Stored(r.risk_score),
                    !.risk_level = Stored(r.risk_level)]

ScoreRows(rows, predictions) ==
    List([i \in 1..Len(rows) |-> ScoreRow(rows[i], predictions[i][1])])

CountLevel(rows, levels) ==
    Cardinality({i \in 1..Len(rows) : ~rows[i].risk_level.is_none
                                      /\ rows[i].risk_level.v \in levels})

\* a handler returns: status 200
Ok(handler, details) ==
    [handler |-> handler, status |-> 200, raised |-> 0, details |-> details]

\* the clause "except Exception as e: raise HTTPException(status_code=500)":
\* it catches whatever the body raised, an HTTPException too; raised is the
\* status_code of the HTTPException the body raised, 0 for another exception
ExceptException(handler, raised) ==
    [handler |-> handler, status |-> 500, raised |-> raised, details |-> <<>>]

\* the clause "except HTTPException: raise" of get_alerts
ExceptHTTPException(handler, raised) ==
    [handler |-> handler, status |-> raised, raised |-> raised, details |-> <<>>]

\* lines 423-431 and 169-176: load the artifact if there is no model in
\* memory, HTTPException 400 if there is no artifact either
EnsureModel(self, file) ==
    IF self.model.state # "None" THEN [ok |-> TRUE, self |-> self]
    ELSE IF file.exists THEN [ok |-> TRUE, self |-> load_model(self, file).self]
    ELSE [ok |-> FALSE, self |-> self]

ApiFrame == UNCHANGED <<riskVars, classVars, explVars, repeat, installed, serveVars>>

InitApi ==
    /\ InitMl
    /\ RiskIdle
    /\ ClassIdle
    /\ ExplIdle
    /\ ServeIdle
    /\ ApiIdle

\* POST /generate-logs
PostGenerateLogs ==
    /\ IF Len(db) > 0
       THEN /\ resp' = Ok("generate_logs", [existing_logs |-> Len(db)])
            /\ UNCHANGED db
       ELSE \E g \in GeneratedSets :
               /\ db' = NewRows(g.normal, FALSE) \o NewRows(g.anomalous, TRUE)
               /\ resp' = Ok("generate_logs",
                             [total_logs |-> Len(g.normal) + Len(g.anomalous)])
    /\ UNCHANGED <<fieldVars, artifact, call>>
    /\ ApiFrame

\* POST /train-model
PostTrainModel ==
    /\ LET normal_logs == SelectSeq(db, LAMBDA row : ~row.is_anomaly)
       IN  IF Len(normal_logs) = 0
           THEN /\ resp' = ExceptException("train_model", 400)
                /\ UNCHANGED <<fieldVars, artifact, call>>
           ELSE \E saveOk \in BOOLEAN :
                   LET r == train(Self, LogDicts(normal_logs), saveOk, artifact)
                   IN  /\ SetSelf(r.self)
                       /\ artifact' = r.artifact
                       /\ call' = [op |-> "train", batch |-> LogDicts(normal_logs),
                                   outcome |-> r.outcome, raw |-> <<>>]
                       /\ resp' = IF r.outcome.status = "ok"
                                  THEN Ok("train_model", r.outcome.value)
                                  ELSE ExceptException("train_model", 0)
    /\ UNCHANGED db
    /\ ApiFrame

\* POST /analyze-logs
PostAnalyzeLogs ==
    /\ LET r == analyze_logs(Self, artifact, LogDicts(db))
       IN  /\ SetSelf(r.self)
           /\ IF r.outcome.status = "ok"
              THEN LET rows == ScoreRows(db, r.outcome.value)
                   IN  /\ db' = rows                                  \* line 225
                       /\ resp' = Ok("analyze_logs",
                                     [logs_analyzed |-> Len(db),
                                      alerts_created |->
                                          CountLevel(rows, {"Medium", "High"})])
              ELSE /\ UNCHANGED db                                    \* line 236
                   /\ resp' = ExceptException("analyze_logs",
                                  IF r.outcome.exc = "HTTPException" THEN 400 ELSE 0)
           /\ call' = IF r.scored
                      THEN [op |-> "predict", batch |-> LogDicts(db),
                            outcome |-> r.outcome, raw |-> r.raw]
                      ELSE call
    /\ UNCHANGED artifact
    /\ ApiFrame

\* POST /simulate-attack
PostSimulateAttack ==
    /\ \E attack_logs \in AttackSets :
          /\ Len(db) + Len(attack_logs) <= MaxRows
          /\ LET m == EnsureModel(Self, artifact)
                 new_logs == NewRows(attack_logs, TRUE)
                 r == predict(m.self, LogDicts(new_logs))
             IN  IF ~m.ok
                 THEN /\ resp' = ExceptException("simulate_attack", 400)
                      /\ UNCHANGED <<fieldVars, db, call>>
                 ELSE /\ SetSelf(r.self)
                      /\ call' = [op |-> "predict", batch |-> LogDicts(new_logs),
                                  outcome |-> r.outcome, raw |-> r.raw]
                      /\ IF r.outcome.status = "ok"
                         THEN LET rows == ScoreRows(new_logs, r.outcome.value)
                              IN  /\ db' = db \o rows                 \* line 482
                                  /\ resp' = Ok("simulate_attack",
                                                [attack_logs_created |-> Len(attack_logs),
                                                 high_risk_alerts |->
                                                     CountLevel(rows, {"High"})])
                         ELSE /\ db' = db \o new_logs                 \* line 443
                              /\ resp' = ExceptException("simulate_attack", 0)
    /\ UNCHANGED artifact
    /\ ApiFrame

\* str.capitalize() on the values of the risk_level parameter
Capitalize(risk_level) ==
    CASE risk_level = "high" -> "High"
      [] risk_level = "MEDIUM" -> "Medium"
      [] risk_level = "critical" -> "Critical"
      [] OTHER -> risk_level

\* GET /alerts, with the default limit: the rows that have a risk_score, of
\* the level asked for if any.  The explanation of each alert is the subject
\* of SpecExplain; the response is taken as the number of alerts.
GetAlertsRequest ==
    /\ \E risk_level \in {"", "high", "MEDIUM", "critical"} :
          LET scored == SelectSeq(db, LAMBDA row : ~row.risk_score.is_none)
              alerts == IF risk_level = "" THEN scored
                        ELSE SelectSeq(scored, LAMBDA row :
                                 row.risk_level = Stored(Capitalize(risk_level)))
          IN  resp' = IF /\ risk_level # ""
                         /\ Capitalize(risk_level) \notin {"Low", "Medium", "High"}
                      THEN ExceptHTTPException("get_alerts", 400)     \* lines 258-261
                      ELSE Ok("get_alerts", [alerts |-> Len(alerts)])
    /\ UNCHANGED <<fieldVars, artifact, call, db>>
    /\ ApiFrame

\* DELETE /reset-database
DeleteResetDatabase ==
    /\ db' = <<>>
    /\ resp' = Ok("reset_database", [deleted_logs |-> Len(db)])
    /\ UNCHANGED <<fieldVars, artifact, call>>
    /\ ApiFrame

NextApi ==
    \/ PostGenerateLogs
    \/ PostTrainModel
    \/ PostAnalyzeLogs
    \/ PostSimulateAttack
    \/ GetAlertsRequest
    \/ DeleteResetDatabase
    \/ Startup

SpecApi == InitApi /\ [][NextApi]_vars

-----------------------------------------------------------------------------
(* Claims on the risk engine *)

\* C1: for every valid input calculate_risk_score returns a value in [0,100]
C1_RiskScoreInRange ==
    rPc = "done" =>
        /\ RLeq(RInt(0), rOut.risk_score)
        /\ RLeq(rOut.risk_score, RInt(100))
        /\ rOut.risk_score =
              calculate_risk_score(rArgs.anomaly_score, rArgs.failed_login_attempts,
                                   rArgs.privilege_change, rArgs.vm_creation_count)

\* a call whose weighted sum exceeds 100 has returned
C1_Witness ==
    /\ rPc = "done"
    /\ RLt(RInt(100), risk_sum(rArgs.anomaly_score, rArgs.failed_login_attempts,
                               rArgs.privilege_change, rArgs.vm_creation_count))

\* the claimed closed form, written out in integers over the denominator d
ClaimedScore(a) ==
    LET num == a.anomaly_score.n * 50
               + a.anomaly_score.d * (a.failed_login_attempts * 5
                                      + (IF a.privilege_change THEN 20 ELSE 0)
                                      + a.vm_creation_count * 5)
        den == a.anomaly_score.d
    IN  IF num >= 100 * den THEN RInt(100) ELSE Rat(num, den)

ExampleArgs == [anomaly_score |-> Rat(4, 5), failed_login_attempts |-> 12,
                privilege_change |-> TRUE, vm_creation_count |-> 15]

\* C2: calculate_risk_score returns exactly
\* min(100, anomaly*50 + failed*5 + (20 if privilege_change) + vm*5);
\* (0.8, 12, true, 15) gives 195 before the clamp and 100 after
C2_RiskFormula ==
    rPc = "done" =>
        /\ rOut.risk_score = ClaimedScore(rArgs)
        /\ rArgs = ExampleArgs =>
              /\ risk_sum(rArgs.anomaly_score, rArgs.failed_login_attempts,
                          rArgs.privilege_change, rArgs.vm_creation_count) = RInt(195)
              /\ rOut.risk_score = RInt(100)
              /\ rOut.risk_level = "High"

\* the example call of the specification has returned
C2_Witness == rPc = "done" /\ rArgs = ExampleArgs

\* C3: classify_risk_level maps every score to exactly one level: Low when
\* score <= 30, Medium when 30 < score <= 70, High when score > 70
C3_ClassifyBands ==
    cPc = "done" =>
        /\ cOut \in {"Low", "Medium", "High"}
        /\ cOut = "Low" <=> cIn.n <= 30 * cIn.d
        /\ cOut = "Medium" <=> (cIn.n > 30 * cIn.d /\ cIn.n <= 70 * cIn.d)
        /\ cOut = "High" <=> cIn.n > 70 * cIn.d
        /\ cIn = RInt(30) => cOut = "Low"
        /\ cIn = RInt(70) => cOut = "Medium"

\* the score just above 70 on the finest grid has been classified
C3_Witness ==
    /\ cPc = "done"
    /\ cIn = Rat(70 * ScoreDen + 1, ScoreDen)
    /\ cOut = "High"

LevelRank(l) == CASE l = "Low" -> 0 [] l = "Medium" -> 1 [] l = "High" -> 2 [] OTHER -> -1

\* C4: raising one input alone (anomaly_score, failed_login_attempts,
\* vm_creation_count, or privilege_change false -> true) never lowers the
\* returned risk score, nor the risk level
C4_RiskMonotone ==
    (rPc = "done" /\ rPrev.has) =>
        /\ RLeq(rPrev.out.risk_score, rOut.risk_score)
        /\ LevelRank(rPrev.out.risk_level) <= LevelRank(rOut.risk_level)

\* a raised anomaly score has moved a call strictly up, below the cap
C4_Witness ==
    /\ rPc = "done"
    /\ rPrev.has
    /\ RLt(rPrev.args.anomaly_score, rArgs.anomaly_score)
    /\ RLt(rPrev.out.risk_score, rOut.risk_score)
    /\ RLt(rOut.risk_score, RInt(100))

-----------------------------------------------------------------------------
(* Claims on the explainer *)

IsHHMM(t) ==
    /\ Len(t) = 5
    /\ t[3] = ":"
    /\ \A i \in {1, 2, 4, 5} : IsDigit(t[i])
    /\ 10 * DigitVal(t[1]) + DigitVal(t[2]) <= 23
    /\ 10 * DigitVal(t[4]) + DigitVal(t[5]) <= 59

\* a record of the data model: login_time, when present, is "" or HH:MM
ValidLoginTime(log_data) ==
    "login_time" \in DOMAIN log_data =>
        (Len(log_data["login_time"]) = 0 \/ IsHHMM(log_data["login_time"]))

C6_ExplainerNeverRaises ==
    ePc = "done" => eOut.status = "ok"

-----------------------------------------------------------------------------
(* Claims on the ML model *)

\* C7: predict on an instance on which neither train nor load_model has
\* succeeded raises an error and never returns a result list
C7_PredictBeforeTrainRaises ==
    (call.op = "predict" /\ ~installed) => call.outcome.status = "raise"

\* the error predict raises on an instance whose model is None (line 162)
NotTrainedError == predict(NewSelf, <<L1>>).outcome

\* C8: load_model on a missing artifact raises an error that differs from the
\* "not yet trained" error of predict, and leaves the in-memory model, scaler,
\* encoders and feature names exactly as they were before the call
C8_LoadMissingArtifact ==
    [][(call'.op = "load_model" /\ ~artifact.exists) =>
          /\ call'.outcome.status = "raise"
          /\ NotTrainedError.status = "raise"
          /\ call'.outcome # NotTrainedError
          /\ UNCHANGED fieldVars]_vars

\* load_model has failed on a missing artifact while a fitted model, a fitted
\* scaler and a fitted encoder were in memory
C8_Witness ==
    /\ call.op = "load_model"
    /\ call.outcome = Raised("FileNotFoundError")
    /\ ~artifact.exists
    /\ model.state = "fitted"
    /\ scaler.fitted
    /\ location_encoder.fitted

AllEqual(s) == \A i, j \in 1..Len(s) : s[i] = s[j]

ValidInput(log) ==
    /\ to_datetime(log.login_time).ok
    /\ ~resource_mapping(log.resource_access_level).nan

Unseen(log) == ~InSeq(location_encoder.classes_, log.login_location)

\* the index of location_encoded in feature_cols
LocationCol == CHOOSE k \in 1..Len(feature_cols) : feature_cols[k] = "location_encoded"

\* C12: a record whose login_location was not seen in training does not make
\* predict or get_feature_importance fail on a trained instance: the call
\* returns, the location is encoded as -1 and that -1 is scaled with the
\* statistics fitted at training time
C12_UnseenLocationSentinel ==
    (/\ call.op \in {"predict", "get_feature_importance"}
     /\ scaler.fitted
     /\ location_encoder.fitted
     /\ call.op = "predict" => model.state = "fitted"
     /\ Len(call.batch) > 0
     /\ \A i \in 1..Len(call.batch) : ValidInput(call.batch[i])
     /\ \E i \in 1..Len(call.batch) : Unseen(call.batch[i]))
    => /\ call.outcome.status = "ok"
       /\ Len(call.outcome.value) >= 1
       /\ \A i \in 1..Len(call.batch) :
             Unseen(call.batch[i]) =>
                 preprocess_data(Self, call.batch, FALSE).X[i][LocationCol]
                     = ScaleCell(scaler.stats[LocationCol], Num(-1), LocationCol)

\* predict has returned on a batch that holds a seen and an unseen location
C12_Witness ==
    /\ call.op = "predict"
    /\ call.outcome.status = "ok"
    /\ \E i \in 1..Len(call.batch) : Unseen(call.batch[i])
    /\ \E i \in 1..Len(call.batch) : ~Unseen(call.batch[i])

\* C13: an input error (a malformed login_time, an unrecognized
\* resource_access_level, an empty training batch) always makes train,
\* predict and get_feature_importance raise; none of them returns a result
C13_InputErrorsSurface ==
    /\ (/\ call.op \in {"train", "predict", "get_feature_importance"}
        /\ \E i \in 1..Len(call.batch) : ~ValidInput(call.batch[i]))
       => call.outcome.status = "raise"
    /\ (call.op = "train" /\ Len(call.batch) = 0) => call.outcome.status = "raise"

\* the index of a feature name in feature_cols
FeatureCol(name) == CHOOSE k \in 1..Len(feature_cols) : feature_cols[k] = name

\* C14: get_feature_importance returns at most 5 (feature_name, magnitude)
\* pairs; each magnitude is the absolute value of that feature's scaled value
\* (a number >= 0); the pairs are in non-increasing order of magnitude; no
\* feature left out has a larger magnitude than one that is included
C14_TopFiveImportances ==
    (call.op = "get_feature_importance" /\ call.outcome.status = "ok") =>
        LET top == call.outcome.value
            row == preprocess_data(Self, call.batch, FALSE).X[1]
            magnitude(k) == AbsCell(row[k])
            included == {FeatureCol(top[j][1]) : j \in 1..Len(top)}
        IN  /\ Len(top) <= 5
            /\ Cardinality(included) = Len(top)
            /\ \A j \in 1..Len(top) :
                  /\ \E k \in 1..Len(feature_cols) : feature_cols[k] = top[j][1]
                  /\ top[j][2] = magnitude(FeatureCol(top[j][1]))
                  /\ ~top[j][2].nan
                  /\ top[j][2].num >= 0
            /\ \A j \in 1..(Len(top) - 1) : ~MagLt(top[j][2], top[j + 1][2])
            /\ \A k \in (1..Len(feature_cols)) \ included :
                  \A j \in 1..Len(top) : ~MagLt(top[j][2], magnitude(k))

\* C15: a train call that raises part-way, on an instance on which a train or
\* load_model has succeeded before, leaves the in-memory model, scaler and
\* location encoder as they were before the call
C15_FailedTrainKeepsState ==
    [][(installed /\ call'.op = "train" /\ call'.outcome.status = "raise") =>
          UNCHANGED <<model, scaler, location_encoder>>]_vars

\* C17: predict and get_feature_importance leave the model, the scaler
\* statistics and the location code table as they find them, so after any
\* sequence of scoring calls these are what the last train or load_model left;
\* only train and load_model (and a new instance) change them
C17_ScoringLeavesState ==
    [][/\ call'.op \in {"predict", "get_feature_importance"} =>
              UNCHANGED <<model, scaler, location_encoder>>
       /\ <<model, scaler, location_encoder>>' # <<model, scaler, location_encoder>> =>
              call'.op \in {"train", "load_model", "__init__"}]_vars

\* predict has returned on a batch of at least two records, on an instance
\* that a successful train or load_model has set up
C17_Witness ==
    /\ call.op = "predict"
    /\ call.outcome.status = "ok"
    /\ installed
    /\ model.state = "fitted"
    /\ Len(call.batch) >= 2

-----------------------------------------------------------------------------
(* Claims on the order and the tiers of the explainer's checks *)

\* the place of a message's check in the fixed order of the checks
CheckRank(check) ==
    CASE check = "unusual_location" -> 1
      [] check \in {"multiple_failed_logins", "elevated_failed_logins"} -> 2
      [] check = "privilege_escalation" -> 3
      [] check \in {"suspicious_vm_creation", "elevated_vm_creation"} -> 4
      [] check = "high_resource_access" -> 5
      [] check = "unusual_hours" -> 6
      [] check = "ml_key_factors" -> 7
      [] OTHER -> 8

\* how many of the returned messages come from the given check
CountOf(check) ==
    Cardinality({j \in 1..Len(eOut.value) : eOut.value[j].check = check})

\* C18: the messages generate_explanation returns are in the order of the
\* checks (location, failed attempts, privilege change, VM creation, resource
\* access level, unusual hours, ML key factors): a message of an earlier
\* check never follows a message of a later check
C18_ExplanationOrder ==
    (ePc = "done" /\ eOut.status = "ok") =>
        \A j, k \in 1..Len(eOut.value) :
            j < k => CheckRank(eOut.value[j].check) < CheckRank(eOut.value[k].check)

\* a call in which all seven checks fire has returned
C18_Witness ==
    /\ ePc = "done"
    /\ eOut.status = "ok"
    /\ Len(eOut.value) = 7

\* C19: each tiered check appends at most one entry: failed_login_attempts
\* >= 5 gives only the "multiple failed" message, 3 or 4 only the "elevated
\* failed" message, below 3 neither; vm_creation_count >= 10 gives only the
\* "suspicious VM creation" message, 5 to 9 only the "elevated VM creation"
\* message, below 5 neither
C19_TieredChecks ==
    (ePc = "done" /\ eOut.status = "ok") =>
        LET failed == Get(eLog, "failed_login_attempts", 0)
            vm == Get(eLog, "vm_creation_count", 0)
        IN  /\ CountOf("multiple_failed_logins") = (IF failed >= 5 THEN 1 ELSE 0)
            /\ CountOf("elevated_failed_logins") = (IF failed \in 3..4 THEN 1 ELSE 0)
            /\ CountOf("suspicious_vm_creation") = (IF vm >= 10 THEN 1 ELSE 0)
            /\ CountOf("elevated_vm_creation") = (IF vm \in 5..9 THEN 1 ELSE 0)

\* a call with 5 failed attempts and 10 VMs has returned, each check giving
\* its upper-tier message
C19_Witness ==
    /\ ePc = "done"
    /\ eOut.status = "ok"
    /\ Get(eLog, "failed_login_attempts", 0) = 5
    /\ Get(eLog, "vm_creation_count", 0) = 10
    /\ CountOf("multiple_failed_logins") = 1
    /\ CountOf("suspicious_vm_creation") = 1

\* the hour of an HH:MM login_time, read off its first two characters
HourOf(t) == 10 * DigitVal(t[1]) + DigitVal(t[2])

\* C20: generate_explanation appends the unusual-hours message exactly when
\* the login hour is below 6 or above 22: hours 0 to 5 and 23 give it, hours
\* 6 to 22 do not (and a record without login_time does not get it)
C20_UnusualHours ==
    (ePc = "done" /\ eOut.status = "ok") =>
        LET t == Get(eLog, "login_time", <<>>)
        IN  /\ Len(t) = 0 => CountOf("unusual_hours") = 0
            /\ (Len(t) > 0 /\ IsHHMM(t)) =>
                  /\ HourOf(t) \in (0..5) \cup {23} => CountOf("unusual_hours") = 1
                  /\ HourOf(t) \in 6..22 => CountOf("unusual_hours") = 0

\* a call with login_time 06:00, the first hour that is not unusual, has
\* returned
C20_Witness ==
    /\ ePc = "done"
    /\ eOut.status = "ok"
    /\ "login_time" \in DOMAIN eLog
    /\ eLog["login_time"] = <<"0", "6", ":", "0", "0">>
    /\ CountOf("unusual_hours") = 0

-----------------------------------------------------------------------------
(* Claims on the handlers *)

\* the fields a scoring call reads were all assigned by the same call of
\* train (or all loaded from one artifact, or all as built by __init__)
SameRun(o) == o.location_encoder = o.scaler /\ o.scaler = o.model

\* no scoring call reads fields of two runs; this is what running the
\* handlers one at a time gives, and what LoopFree_threads loses
NoMixOfRuns == observed.is => SameRun(observed)

-----------------------------------------------------------------------------
(* Claims on the ML message and the fallback of the explainer *)

\* the first three entries of the supplied top_features
FirstThree == SubSeq(eTop.items, 1, IF Len(eTop.items) < 3 THEN Len(eTop.items) ELSE 3)

\* the positions among the first three whose importance is greater than 0.5
KeptPositions == {j \in 1..Len(FirstThree) : Significant(FirstThree[j][2])}

\* the ML messages among the returned messages
MlMessages == SelectSeq(eOut.value, LAMBDA m : m.check = "ml_key_factors")

\* C21: when top_features is supplied, generate_explanation looks at its
\* first 3 entries only and keeps those whose importance is greater than 0.5;
\* if any is kept it appends exactly one ML message, which lists the readable
\* names of the kept entries in their order and nothing else; if none is kept
\* (or no top_features is supplied) it appends no ML message; an entry at
\* position 4 or later is never listed
C21_MlKeyFactors ==
    (ePc = "done" /\ eOut.status = "ok") =>
        /\ eTop.none => Len(MlMessages) = 0
        /\ ~eTop.none =>
              /\ Len(MlMessages) = (IF KeptPositions = {} THEN 0 ELSE 1)
              /\ KeptPositions # {} =>
                    LET listed == MlMessages[1].arg[1]
                    IN  /\ Len(listed) = Cardinality(KeptPositions)
                        /\ \A j \in KeptPositions :
                              \E k \in 1..Len(listed) :
                                 /\ listed[k] = Humanize(FirstThree[j][1])
                                 /\ k = Cardinality({i \in KeptPositions : i <= j})
                        /\ \A j \in 4..Len(eTop.items) :
                              \A k \in 1..Len(listed) :
                                 listed[k] # Humanize(eTop.items[j][1])

\* a call has returned whose top_features holds five entries, with a NaN and
\* a kept entry among the first three and an importance above 0.5 at
\* position 4: the message lists two names
C21_Witness ==
    /\ ePc = "done"
    /\ eOut.status = "ok"
    /\ ~eTop.none
    /\ Len(eTop.items) = 5
    /\ Significant(eTop.items[4][2])
    /\ Cardinality(KeptPositions) = 2
    /\ Len(MlMessages) = 1
    /\ MlMessages[1].arg[1] = <<"Vm Creation Count", "Failed Login Attempts">>

\* the generic messages among the returned messages
FallbackMessages ==
    SelectSeq(eOut.value, LAMBDA m : m.check \in {"behavioral_deviation",
                                                  "combined_minor_indicators"})

\* the record and the top_features make none of the checks 1 to 7 fire
NoCheckFires ==
    /\ Get(eLog, "login_location", "") \notin unusual_locations
    /\ Get(eLog, "failed_login_attempts", 0) < 3
    /\ ~Get(eLog, "privilege_change", FALSE)
    /\ Get(eLog, "vm_creation_count", 0) < 5
    /\ Get(eLog, "resource_access_level", "") # "high"
    /\ LET t == Get(eLog, "login_time", <<>>)
       IN  Len(t) = 0 \/ HourOf(t) \in 6..22
    /\ eTop.none \/ KeptPositions = {}

\* C22: the generic message is returned if and only if none of the checks 1
\* to 7 gave a message, and it is then the only message: the "behavioral
\* deviation" one when anomaly_score > 0.6, the "combined minor indicators"
\* one otherwise (anomaly_score absent, 0 or at most 0.6)
C22_FallbackMessage ==
    (ePc = "done" /\ eOut.status = "ok") =>
        LET specific == {j \in 1..Len(eOut.value) : CheckRank(eOut.value[j].check) <= 7}
        IN  /\ Len(FallbackMessages) > 0 <=> specific = {}
            /\ specific = {} <=> NoCheckFires
            /\ specific = {} =>
                  eOut.value =
                     IF /\ "anomaly_score" \in DOMAIN eLog
                        /\ RLt(Rat(3, 5), eLog["anomaly_score"])
                     THEN <<Msg("behavioral_deviation", "")>>
                     ELSE <<Msg("combined_minor_indicators", "")>>

\* the record with 0 failed attempts, no privilege change, 0 VMs and
\* anomaly_score 0.0 has got the "combined minor indicators" message alone
C22_Witness ==
    /\ ePc = "done"
    /\ DOMAIN eLog = {"failed_login_attempts", "privilege_change",
                      "vm_creation_count", "anomaly_score"}
    /\ eLog["failed_login_attempts"] = 0
    /\ ~eLog["privilege_change"]
    /\ eLog["vm_creation_count"] = 0
    /\ eLog["anomaly_score"] = RInt(0)
    /\ eOut = Returned(<<Msg("combined_minor_indicators", "")>>)

-----------------------------------------------------------------------------
(* Claims on the HTTP handlers and the cloud_logs table *)

\* C23: a precondition failure that a handler raises as HTTPException with
\* status_code 400 (train_model without normal logs, analyze_logs without
\* logs, analyze_logs or simulate_attack without a model and without an
\* artifact) is answered with status 400
C23_PreconditionStatus == resp.raised = 400 => resp.status = 400

\* the three ML and risk columns of a row are all NULL
RowUnscored(row) ==
    row.anomaly_score.is_none /\ row.risk_score.is_none /\ row.risk_level.is_none

\* the three columns are all written, and agree with the risk engine on the
\* row's own values
RowScored(row) ==
    /\ ~row.anomaly_score.is_none
    /\ ~row.risk_score.is_none
    /\ ~row.risk_level.is_none
    /\ row.risk_level.v = classify_risk_level(row.risk_score.v)
    /\ row.risk_score.v = calculate_risk_score(row.anomaly_score.v,
                                               row.log.failed_login_attempts,
                                               row.log.privilege_change,
                                               row.log.vm_creation_count)

\* C24: after any sequence of generate-logs, train-model, analyze-logs,
\* simulate-attack and reset-database requests every stored log has
\* anomaly_score, risk_score and risk_level all unset or all set, and when set
\* risk_level is classify_risk_level(risk_score) and risk_score is
\* calculate_risk_score of the log's own anomaly_score, failed_login_attempts,
\* privilege_change and vm_creation_count
C24_StoredScoresConsistent ==
    \A i \in 1..Len(db) : RowUnscored(db[i]) \/ RowScored(db[i])

\* the table holds logs scored by analyze_logs and attack logs scored by
\* simulate_attack since, with all three risk levels among them
C24_Witness ==
    /\ Len(db) >= 4
    /\ \E i \in 1..Len(db) : RowScored(db[i]) /\ db[i].risk_level.v = "Low"
    /\ \E i \in 1..Len(db) : RowScored(db[i]) /\ db[i].risk_level.v = "Medium"
    /\ \E i \in 1..Len(db) : RowScored(db[i]) /\ db[i].risk_level.v = "High"
    /\ \E i \in 1..Len(db) : RowScored(db[i]) /\ db[i].anomaly_score.v = RInt(1)
    /\ \E i \in 1..Len(db) : RowScored(db[i]) /\ ~db[i].is_anomaly
    /\ resp.handler = "simulate_attack"
    /\ resp.status = 200

\* the rows a simulate_attack request has just added
AddedRows == SubSeq(db, Len(db) + 1 - resp.details.attack_logs_created, Len(db))

\* C25: every log of generate_attack_simulation_logs gets risk score 100 and
\* level High whatever anomaly score the model gives it (10 or more failed
\* attempts, 10 or more VMs and a privilege change weigh 120 by themselves),
\* so a simulate-attack request that succeeds reports high_risk_alerts equal
\* to attack_logs_created
C25_AttackLogsAllHigh ==
    /\ \A attack_logs \in AttackSets : \A i \in 1..Len(attack_logs) :
          \A anomaly_score \in AnomalyScores :
             LET risk_score == calculate_risk_score(anomaly_score,
                                   attack_logs[i].failed_login_attempts,
                                   attack_logs[i].privilege_change,
                                   attack_logs[i].vm_creation_count)
             IN  risk_score = RInt(100) /\ classify_risk_level(risk_score) = "High"
    /\ (resp.handler = "simulate_attack" /\ resp.status = 200) =>
          /\ resp.details.high_risk_alerts = resp.details.attack_logs_created
          /\ \A i \in 1..Len(AddedRows) :
                /\ AddedRows[i].risk_score = Stored(RInt(100))
                /\ AddedRows[i].risk_level = Stored("High")

\* a simulate-attack request has succeeded on two logs that the model gave
\* the anomaly scores 0 and 1
C25_Witness ==
    /\ resp.handler = "simulate_attack"
    /\ resp.status = 200
    /\ resp.details.attack_logs_created = 2
    /\ \E i, j \in 1..Len(AddedRows) :
          /\ AddedRows[i].anomaly_score = Stored(RInt(0))
          /\ AddedRows[j].anomaly_score = Stored(RInt(1))

====
